---- MODULE Spec2Model ----
(***************************************************************************)
(* HustleBot (src/Python/main.py): the moderation layer of the bot.        *)
(*                                                                         *)
(* The state is the in-memory state of ModerationSystem, the two tables of *)
(* the SQLite store the moderation code touches (user_verification and     *)
(* moderation_logs), the wall clock, and a record `ev` of what the last    *)
(* handler did towards the chat transport (replies, deletion, admin        *)
(* notifications, which checks it ran).  Texts are sequences of one-       *)
(* character strings, so that strip(), lower(), str(), int() and the       *)
(* regular expressions are computed rather than assumed.  Time is counted  *)
(* in whole seconds.                                                       *)
(***************************************************************************)
EXTENDS Integers, Sequences, FiniteSets, TLC

(***************************************************************************)
(* Characters and the text functions of Python the handlers rely on        *)
(***************************************************************************)
DigitSeq ==
    <<"0","1","2","3","4","5","6","7","8","9">>

LowerSeq ==
    <<"a","b","c","d","e","f","g","h","i","j","k","l","m",
      "n","o","p","q","r","s","t","u","v","w","x","y","z">>

UpperSeq ==
    <<"A","B","C","D","E","F","G","H","I","J","K","L","M",
      "N","O","P","Q","R","S","T","U","V","W","X","Y","Z">>

Range(s) ==
    { s[i] : i \in DOMAIN s }

Digits ==
    Range(DigitSeq)

Letters ==
    Range(LowerSeq) \cup Range(UpperSeq)

AlnumChars ==
    Letters \cup Digits

WordChars ==
    AlnumChars \cup {"_"}

HostChars ==
    AlnumChars \cup {"-", "."}

Whitespace ==
    {" ", "\t", "\n", "\r"}

\* str.lower(), one character
LowerChar(c) ==
    IF \E i \in DOMAIN UpperSeq : UpperSeq[i] = c
    THEN LowerSeq[CHOOSE i \in DOMAIN UpperSeq : UpperSeq[i] = c]
    ELSE c

\* str.lower(); SubSeq makes the result a sequence proper
Lower(s) ==
    SubSeq([i \in DOMAIN s |-> LowerChar(s[i])], 1, Len(s))

\* str.strip(): leading and trailing whitespace removed
Strip(s) ==
    LET keep  == { i \in DOMAIN s : s[i] \notin Whitespace }
        first == CHOOSE i \in keep : \A j \in keep : i <= j
        last  == CHOOSE i \in keep : \A j \in keep : j <= i
    IN  IF keep = {} THEN <<>> ELSE SubSeq(s, first, last)

\* `k in s` for strings
IsSubstring(k, s) ==
    \E i \in 0..(Len(s) - Len(k)) : SubSeq(s, i + 1, i + Len(k)) = k

RECURSIVE NatToStr(_)
\* str(n) for n >= 0
NatToStr(n) ==
    IF n < 10 THEN <<DigitSeq[n + 1]>>
    ELSE NatToStr(n \div 10) \o <<DigitSeq[(n % 10) + 1]>>

DigitValue(c) ==
    (CHOOSE i \in DOMAIN DigitSeq : DigitSeq[i] = c) - 1

RECURSIVE DigitsToNat(_)
DigitsToNat(s) ==
    IF s = <<>> THEN 0
    ELSE 10 * DigitsToNat(SubSeq(s, 1, Len(s) - 1)) + DigitValue(s[Len(s)])

\* int(s): ok = FALSE stands for ValueError.  A sign is accepted, as int() does.
ParseInt(s) ==
    LET t    == Strip(s)
        body == IF t # <<>> /\ t[1] \in {"+", "-"} THEN Tail(t) ELSE t
    IN  IF body = <<>> \/ \E i \in DOMAIN body : body[i] \notin Digits
        THEN [ok |-> FALSE, value |-> 0]
        ELSE [ok |-> TRUE,
              value |-> IF t[1] = "-" THEN 0 - DigitsToNat(body) ELSE DigitsToNat(body)]

(***************************************************************************)
(* ModerationSystem.__init__: the static configuration                     *)
(***************************************************************************)
MessagesPerMinute ==
    10

CommandsPerMinute ==
    5

SameMessageLimit ==
    3

MessageWindowMax ==
    50

CommandWindowMax ==
    20

Kw_scam ==
    << <<"a","i","r","d","r","o","p">>,
       <<"f","r","e","e"," ","c","r","y","p","t","o">>,
       <<"p","u","m","p">>,
       <<"m","o","o","n","s","h","o","t">>,
       <<"g","u","a","r","a","n","t","e","e","d"," ","p","r","o","f","i","t">>,
       <<"d","o","u","b","l","e"," ","y","o","u","r">>,
       <<"i","n","v","e","s","t","m","e","n","t"," ","o","p","p","o","r","t","u","n","i","t","y">>,
       <<"c","l","i","c","k"," ","h","e","r","e">>,
       <<"l","i","m","i","t","e","d"," ","t","i","m","e">>,
       <<"d","m"," ","m","e">>,
       <<"t","e","l","e","g","r","a","m",".","m","e">>,
       <<"t",".","m","e","/">>,
       <<"b","i","t",".","l","y">>,
       <<"t","i","n","y","u","r","l">> >>

Kw_promo ==
    << <<"j","o","i","n"," ","m","y"," ","c","h","a","n","n","e","l">>,
       <<"s","u","b","s","c","r","i","b","e">>,
       <<"f","o","l","l","o","w"," ","m","e">>,
       <<"c","h","e","c","k"," ","m","y"," ","b","i","o">>,
       <<"p","r","o","m","o","t","i","o","n">>,
       <<"a","d","v","e","r","t","i","s","e","m","e","n","t">>,
       <<"b","u","y"," ","n","o","w">>,
       <<"s","p","e","c","i","a","l"," ","o","f","f","e","r">> >>

Kw_raid ==
    << <<"r","a","i","d">>,
       <<"s","p","a","m">>,
       <<"f","l","o","o","d">>,
       <<"a","t","t","a","c","k">>,
       <<"m","a","s","s"," ","m","e","s","s","a","g","e">> >>

\* the dict keeps insertion order: scam, promo, raid
spam_keywords ==
    << [category |-> "scam",  keywords |-> Kw_scam],
       [category |-> "promo", keywords |-> Kw_promo],
       [category |-> "raid",  keywords |-> Kw_raid] >>

(***************************************************************************)
(* ModerationSystem: the pure checks                                       *)
(***************************************************************************)
CategoryMatches(i, text_lower) ==
    \E k \in DOMAIN spam_keywords[i].keywords :
        IsSubstring(spam_keywords[i].keywords[k], text_lower)

\* the classifier reporting the last category with a hit instead of the first
contains_spam_keywords_LastWins(text) ==
    LET text_lower == Lower(text)
        hits == { i \in DOMAIN spam_keywords : CategoryMatches(i, text_lower) }
        last == CHOOSE i \in hits : \A j \in hits : j <= i
    IN  IF hits = {} THEN <<FALSE, "">>
        ELSE <<TRUE, spam_keywords[last].category>>

\* contains_spam_keywords: (True, category) of the first category with a hit
contains_spam_keywords(text) ==
    LET text_lower == Lower(text)
        hits == { i \in DOMAIN spam_keywords : CategoryMatches(i, text_lower) }
        first == CHOOSE i \in hits : \A j \in hits : i <= j
    IN  IF hits = {} THEN <<FALSE, "">>
        ELSE <<TRUE, spam_keywords[first].category>>

AllIn(s, from, to, chars) ==
    \A i \in from..to : i \in DOMAIN s /\ s[i] \in chars

StartsAt(s, i, k) ==
    i + Len(k) - 1 <= Len(s) /\ SubSeq(s, i, i + Len(k) - 1) = k

\* r'[a-zA-Z0-9]{20,}'
LongRunPattern(s) ==
    \E i \in DOMAIN s : AllIn(s, i, i + 19, AlnumChars)

\* the host part after the scheme, starting at p:  [a-zA-Z0-9\-\.]+\.[a-zA-Z]{2,}
HostAt(s, p) ==
    \E j \in (p + 1)..Len(s) :
        /\ AllIn(s, p, j - 1, HostChars)
        /\ s[j] = "."
        /\ AllIn(s, j + 1, j + 2, Letters)

\* r'(http|https)://[a-zA-Z0-9\-\.]+\.[a-zA-Z]{2,}'
UrlPattern(s) ==
    \E i \in DOMAIN s :
        \/ StartsAt(s, i, <<"h","t","t","p",":","/","/">>) /\ HostAt(s, i + 7)
        \/ StartsAt(s, i, <<"h","t","t","p","s",":","/","/">>) /\ HostAt(s, i + 8)

\* r'@[a-zA-Z0-9_]{5,}'
MentionPattern(s) ==
    \E i \in DOMAIN s : s[i] = "@" /\ AllIn(s, i + 1, i + 5, WordChars)

\* \b: a word character on exactly one side of the gap before position i
WordBoundaryBefore(s, i) ==
    LET left  == i - 1 \in DOMAIN s /\ s[i - 1] \in WordChars
        right == i \in DOMAIN s /\ s[i] \in WordChars
    IN  left # right

\* r'\b\d{10,}\b'
LongNumberPattern(s) ==
    \E i \in DOMAIN s : \E j \in (i + 9)..Len(s) :
        /\ AllIn(s, i, j, Digits)
        /\ WordBoundaryBefore(s, i)
        /\ WordBoundaryBefore(s, j + 1)

\* is_suspicious_pattern: re.search of any of the four patterns
is_suspicious_pattern(text) ==
    \/ LongRunPattern(text)
    \/ UrlPattern(text)
    \/ MentionPattern(text)
    \/ LongNumberPattern(text)

\* generate_captcha: the answer string for the two numbers drawn
generate_captcha(num1, num2) ==
    NatToStr(num1 + num2)

\* a deque without maxlen: append never evicts
DequeAppend_Unbounded(q, x, maxlen) ==
    Append(q, x)

\* a deque(maxlen=n).append(x)
DequeAppend(q, x, maxlen) ==
    IF Len(q) >= maxlen THEN Tail(q) \o <<x>> ELSE Append(q, x)

SecondsPerDay ==
    86400

FloodWindowSeconds ==
    60

RepeatLookback ==
    10

\* timedelta.seconds: the seconds field of the normalised difference (days dropped)
TimedeltaSeconds(delta) ==
    delta % SecondsPerDay

\* str(datetime): "<date> <time of day>"
StrTime(t) ==
    NatToStr(t \div SecondsPerDay) \o <<" ">> \o NatToStr(t % SecondsPerDay)

\* [x for x in window if (now - x).seconds < 60]
RecentCount(window, t) ==
    Cardinality({ i \in DOMAIN window : TimedeltaSeconds(t - window[i]) < FloodWindowSeconds })

\* list(user_msgs)[-10:]
LastEntries(window, n) ==
    IF Len(window) <= n THEN window ELSE SubSeq(window, Len(window) - n + 1, Len(window))

\* sum(1 for msg_time in recent_text_list if str(msg_time) == message_text)
SameCount(window, message_text) ==
    LET recent == LastEntries(window, RepeatLookback)
    IN  Cardinality({ i \in DOMAIN recent : StrTime(recent[i]) = message_text })

\* is_flood_spam, on the window after the append
FloodFlag(window, t, message_text) ==
    \/ RecentCount(window, t) > MessagesPerMinute
    \/ SameCount(window, message_text) >= SameMessageLimit

\* is_command_spam, on the window after the append
CommandFlag(window, t) ==
    RecentCount(window, t) > CommandsPerMinute

(***************************************************************************)
(* State                                                                   *)
(***************************************************************************)
VARIABLES
    admin_ids,             \* ModerationSystem.admin_ids
    muted_users,           \* ModerationSystem.muted_users
    banned_users,          \* ModerationSystem.banned_users
    verified_users,        \* ModerationSystem.verified_users
    pending_verification,  \* ModerationSystem.pending_verification: a dict, DOMAIN = its keys
    user_warnings,         \* ModerationSystem.user_warnings
    user_messages,         \* ModerationSystem.user_messages: timestamps
    user_commands,         \* ModerationSystem.user_commands: timestamps
    user_verification,     \* table user_verification: ids with is_verified
    moderation_logs,       \* table moderation_logs, in insertion order
    now,                   \* datetime.now(), in seconds
    ev,                    \* the last inbound event and what its handler did
    steps,                 \* inbound events and clock advances so far
    handlers               \* the handler coroutines started so far and where each stands

vars ==
    <<admin_ids, muted_users, banned_users, verified_users, pending_verification,
      user_warnings, user_messages, user_commands, user_verification,
      moderation_logs, now, ev, steps, handlers>>

\* effective_user.id of the chats that talk to the bot
Users ==
    {1, 2}

\* admin_id = None in a log row
NoAdmin ==
    0

\* what a handler has done towards the transport so far
NoEffects ==
    [replies |-> <<>>, deleted |-> FALSE, notified |-> <<>>, checks |-> {},
     raised |-> FALSE, ret |-> TRUE, processed |-> FALSE]

\* the handler's view: the shared state together with its effects so far
Ctx ==
    [admin_ids |-> admin_ids, muted_users |-> muted_users,
     banned_users |-> banned_users, verified_users |-> verified_users,
     pending_verification |-> pending_verification,
     user_warnings |-> user_warnings, user_messages |-> user_messages,
     user_commands |-> user_commands, user_verification |-> user_verification,
     moderation_logs |-> moderation_logs, fx |-> NoEffects]

\* update.message.reply_text(...): which text, the numbers and the word it carries
Reply(c, kind, args, tag) ==
    [c EXCEPT !.fx.replies = Append(@, [kind |-> kind, args |-> args, tag |-> tag])]

\* update.message.delete()
Delete(c) ==
    [c EXCEPT !.fx.deleted = TRUE]

\* del d[k]
DictDel(d, k) ==
    [x \in (DOMAIN d) \ {k} |-> d[x]]

\* d[k] = v
DictSet(d, k, v) ==
    [x \in (DOMAIN d) \cup {k} |-> IF x = k THEN v ELSE d[x]]

Ran(c, check) ==
    [c EXCEPT !.fx.checks = @ \cup {check}]

Return(c, value) ==
    [c EXCEPT !.fx.ret = value]

(***************************************************************************)
(* ModerationSystem: the operations on its state                           *)
(***************************************************************************)
\* is_admin letting anybody pass while no admin is set
is_admin_Bootstrap(c, user_id) ==
    user_id \in c.admin_ids \/ c.admin_ids = {}

is_admin(c, user_id) ==
    user_id \in c.admin_ids

add_admin(c, user_id) ==
    [c EXCEPT !.admin_ids = @ \cup {user_id}]

add_warning(c, user_id) ==
    [c EXCEPT !.user_warnings[user_id] = @ + 1]

mute_user(c, user_id) ==
    [c EXCEPT !.muted_users = @ \cup {user_id}]

\* unmute_user clearing the warnings of the user it unmutes
unmute_user_ResetsWarnings(c, user_id) ==
    [c EXCEPT !.muted_users = @ \ {user_id},
              !.user_warnings = [u \in DOMAIN @ |-> IF u = user_id THEN 0 ELSE @[u]]]

\* unmute_user lifting a ban as well
unmute_user_AlsoUnbans(c, user_id) ==
    [c EXCEPT !.muted_users = @ \ {user_id}, !.banned_users = @ \ {user_id}]

unmute_user(c, user_id) ==
    [c EXCEPT !.muted_users = @ \ {user_id}]

ban_user(c, user_id) ==
    [c EXCEPT !.banned_users = @ \cup {user_id}]

\* the unban done with set.remove, which raises KeyError for an absent id
unban_user_Remove(c, user_id) ==
    IF user_id \in c.banned_users
    THEN [c EXCEPT !.banned_users = @ \ {user_id}]
    ELSE [c EXCEPT !.fx.raised = TRUE]

\* banned_users.discard(target_user_id), in unban_user_command
unban_user(c, user_id) ==
    [c EXCEPT !.banned_users = @ \ {user_id}]

is_muted(c, user_id) ==
    user_id \in c.muted_users

is_banned(c, user_id) ==
    user_id \in c.banned_users

\* is_flood_spam: appends the timestamp, then returns the flag
is_flood_spam(c, user_id, message_text, t) ==
    LET user_msgs == DequeAppend(c.user_messages[user_id], t, MessageWindowMax)
        c1 == [c EXCEPT !.user_messages[user_id] = user_msgs]
    IN  Return(Ran(c1, "flood"), FloodFlag(user_msgs, t, message_text))

\* is_command_spam: appends the timestamp, then returns the flag
is_command_spam(c, user_id, t) ==
    LET user_cmds == DequeAppend(c.user_commands[user_id], t, CommandWindowMax)
        c1 == [c EXCEPT !.user_commands[user_id] = user_cmds]
    IN  Return(Ran(c1, "command_rate"), CommandFlag(user_cmds, t))

(***************************************************************************)
(* HustleBot: the store                                                    *)
(***************************************************************************)
\* log_moderation_action: one INSERT; a failed write raises
log_moderation_action(c, user_id, action, reason, detail, admin_id, writeOk) ==
    IF writeOk
    THEN [c EXCEPT !.moderation_logs =
             Append(@, [user_id |-> user_id, action |-> action, reason |-> reason,
                        detail |-> detail, admin_id |-> admin_id])]
    ELSE [c EXCEPT !.fx.raised = TRUE]

\* set_user_verification(user_id, True): INSERT OR REPLACE; a failed write raises
set_user_verification(c, user_id, writeOk) ==
    IF writeOk
    THEN [c EXCEPT !.user_verification = @ \cup {user_id}]
    ELSE [c EXCEPT !.fx.raised = TRUE]

is_user_verified(c, user_id) ==
    user_id \in c.user_verification

(***************************************************************************)
(* The handlers                                                            *)
(***************************************************************************)
MuteThreshold ==
    3

MaxAttempts ==
    3

\* check_user_permissions
check_user_permissions(c, user_id) ==
    LET c0 == Ran(c, "permissions")
    IN  IF is_banned(c0, user_id)
        THEN Return(Reply(c0, "banned_notice", <<>>, ""), FALSE)
        ELSE IF is_muted(c0, user_id)
        THEN Return(Reply(c0, "muted_notice", <<>>, ""), FALSE)
        ELSE Return(c0, TRUE)

\* notify_admins without the try/except around the send: the first failed send
\* ends the loop and propagates
notify_admins_Aborts(c, message, about, down) ==
    IF c.admin_ids \cap down = {}
    THEN [c EXCEPT !.fx.notified =
             Append(@, [message |-> message, about |-> about,
                        sent |-> c.admin_ids, failed |-> {}])]
    ELSE [c EXCEPT !.fx.notified =
             Append(@, [message |-> message, about |-> about,
                        sent |-> {}, failed |-> c.admin_ids \cap down]),
                   !.fx.raised = TRUE]

\* notify_admins: one send per admin, a failed send is logged and skipped
notify_admins(c, message, about, down) ==
    [c EXCEPT !.fx.notified =
        Append(@, [message |-> message, about |-> about,
                   sent |-> c.admin_ids \ down, failed |-> c.admin_ids \cap down])]

\* handle_new_user_verification without its `already pending` guard
handle_new_user_verification_Reissues(c, user_id, num1, num2, t) ==
    LET entry == [answer |-> generate_captcha(num1, num2), attempts |-> 0,
                  timestamp |-> t]
        c1 == [c EXCEPT !.pending_verification = DictSet(@, user_id, entry)]
    IN  Reply(Ran(c1, "challenge_issued"), "challenge", <<num1, num2>>, "")

\* handle_new_user_verification
handle_new_user_verification(c, user_id, num1, num2, t) ==
    IF user_id \in DOMAIN c.pending_verification
    THEN Reply(c, "complete_verification_first", <<>>, "")
    ELSE LET entry == [answer |-> generate_captcha(num1, num2), attempts |-> 0,
                       timestamp |-> t]
             c1 == [c EXCEPT !.pending_verification = DictSet(@, user_id, entry)]
         IN  Reply(Ran(c1, "challenge_issued"), "challenge", <<num1, num2>>, "")

\* the flood branch muting only past the threshold (> for >=)
FloodBranch_OffByOne(c, user_id, writeOk, down) ==
    LET c1 == add_warning(c, user_id)
        warnings == c1.user_warnings[user_id]
    IN  IF warnings > MuteThreshold
        THEN LET c2 == mute_user(c1, user_id)
                 c3 == log_moderation_action(c2, user_id, "MUTED",
                           "Flood spam (3 warnings)", "", NoAdmin, writeOk)
             IN  IF c3.fx.raised THEN c3
                 ELSE Return(Delete(notify_admins(
                          Reply(c3, "muted_for_flood", <<>>, ""),
                          "muted_for_flood", user_id, down)), FALSE)
        ELSE Return(Delete(Reply(c1, "flood_warning", <<warnings>>, "")), FALSE)

\* moderate_message, the branch taken when is_flood_spam returned True
FloodBranch(c, user_id, writeOk, down) ==
    LET c1 == add_warning(c, user_id)
        warnings == c1.user_warnings[user_id]
    IN  IF warnings >= MuteThreshold
        THEN LET c2 == mute_user(c1, user_id)
                 c3 == log_moderation_action(c2, user_id, "MUTED",
                           "Flood spam (3 warnings)", "", NoAdmin, writeOk)
             IN  IF c3.fx.raised THEN c3
                 ELSE Return(Delete(notify_admins(
                          Reply(c3, "muted_for_flood", <<>>, ""),
                          "muted_for_flood", user_id, down)), FALSE)
        ELSE Return(Delete(Reply(c1, "flood_warning", <<warnings>>, "")), FALSE)

\* the keyword branch counting a warning against the sender, as the flood branch does
KeywordBranch_AddsWarning(c, user_id, spam_type, writeOk, down) ==
    LET c1 == Delete(add_warning(c, user_id))
        c2 == log_moderation_action(c1, user_id, "MESSAGE_DELETED",
                  "Spam keywords", spam_type, NoAdmin, writeOk)
    IN  IF c2.fx.raised THEN c2
        ELSE Return(notify_admins(
                 Reply(c2, "message_deleted", <<>>, spam_type),
                 "deleted_message", user_id, down), FALSE)

\* moderate_message, the branch taken when contains_spam_keywords returned True
KeywordBranch(c, user_id, spam_type, writeOk, down) ==
    LET c1 == Delete(c)
        c2 == log_moderation_action(c1, user_id, "MESSAGE_DELETED",
                  "Spam keywords", spam_type, NoAdmin, writeOk)
    IN  IF c2.fx.raised THEN c2
        ELSE Return(notify_admins(
                 Reply(c2, "message_deleted", <<>>, spam_type),
                 "deleted_message", user_id, down), FALSE)

\* moderate_message sending everybody but admins through the verification
moderate_message_ForgetsVerified(c, user_id, message_text, num1, num2, t, writeOk, down) ==
    IF is_admin(c, user_id) THEN Return(c, TRUE)
    ELSE Return(handle_new_user_verification(Ran(c, "verification"),
                    user_id, num1, num2, t), FALSE)

\* moderate_message treating a suspicious pattern as a blocking violation
moderate_message_PatternBlocks(c, user_id, message_text, num1, num2, t, writeOk, down) ==
    IF is_admin(c, user_id) THEN Return(c, TRUE)
    ELSE IF ~is_user_verified(c, user_id) /\ user_id \notin c.verified_users
    THEN Return(handle_new_user_verification(Ran(c, "verification"),
                    user_id, num1, num2, t), FALSE)
    ELSE LET c1 == is_flood_spam(c, user_id, message_text, t)
         IN  IF c1.fx.ret THEN FloodBranch(c1, user_id, writeOk, down)
             ELSE LET spam == contains_spam_keywords(message_text)
                      c2 == Ran(c1, "keyword")
                  IN  IF spam[1] THEN KeywordBranch(c2, user_id, spam[2], writeOk, down)
                      ELSE IF is_suspicious_pattern(message_text)
                      THEN Return(notify_admins(
                               Reply(Ran(c2, "pattern"), "suspicious_pattern", <<>>, ""),
                               "suspicious_pattern", user_id, down), FALSE)
                      ELSE Return(Ran(c2, "pattern"), TRUE)

\* moderate_message
moderate_message(c, user_id, message_text, num1, num2, t, writeOk, down) ==
    IF is_admin(c, user_id) THEN Return(c, TRUE)
    ELSE IF ~is_user_verified(c, user_id) /\ user_id \notin c.verified_users
    THEN Return(handle_new_user_verification(Ran(c, "verification"),
                    user_id, num1, num2, t), FALSE)
    ELSE LET c1 == is_flood_spam(c, user_id, message_text, t)
         IN  IF c1.fx.ret THEN FloodBranch(c1, user_id, writeOk, down)
             ELSE LET spam == contains_spam_keywords(message_text)
                      c2 == Ran(c1, "keyword")
                  IN  IF spam[1] THEN KeywordBranch(c2, user_id, spam[2], writeOk, down)
                      ELSE IF is_suspicious_pattern(message_text)
                      THEN Return(notify_admins(
                               Reply(Ran(c2, "pattern"), "suspicious_pattern", <<>>, ""),
                               "suspicious_pattern", user_id, down), TRUE)
                      ELSE Return(Ran(c2, "pattern"), TRUE)

\* the correct-answer branch that forgets `del pending_verification[user.id]`
CorrectAnswerBranch_KeepsEntry(c, user_id, writeOk, down) ==
    LET c1 == [c EXCEPT !.verified_users = @ \cup {user_id}]
        c2 == set_user_verification(c1, user_id, writeOk)
    IN  IF c2.fx.raised THEN c2
        ELSE notify_admins(Reply(c2, "verification_successful", <<>>, ""),
                 "verified", user_id, down)

\* handle_verification_attempt, the branch of a correct answer
CorrectAnswerBranch(c, user_id, writeOk, down) ==
    LET c1 == [c EXCEPT !.pending_verification = DictDel(@, user_id),
                        !.verified_users = @ \cup {user_id}]
        c2 == set_user_verification(c1, user_id, writeOk)
    IN  IF c2.fx.raised THEN c2
        ELSE notify_admins(Reply(c2, "verification_successful", <<>>, ""),
                 "verified", user_id, down)

\* the wrong-answer branch that computes `remaining` before the increment
WrongAnswerBranch_StaleRemaining(c, user_id, writeOk, down) ==
    LET before == c.pending_verification[user_id].attempts
        attempts == before + 1
        c1 == [c EXCEPT !.pending_verification[user_id].attempts = attempts]
    IN  IF attempts >= MaxAttempts
        THEN LET c2 == ban_user(
                     [c1 EXCEPT !.pending_verification = DictDel(@, user_id)], user_id)
                 c3 == log_moderation_action(c2, user_id, "BANNED",
                           "Failed verification 3 times", "", NoAdmin, writeOk)
             IN  IF c3.fx.raised THEN c3
                 ELSE notify_admins(
                          Reply(c3, "verification_failed_banned", <<>>, ""),
                          "banned_failed_verification", user_id, down)
        ELSE Reply(c1, "wrong_answer", <<MaxAttempts - before>>, "")

\* the wrong-answer branch banning only past the third wrong answer (> for >=)
WrongAnswerBranch_OneMore(c, user_id, writeOk, down) ==
    LET attempts == c.pending_verification[user_id].attempts + 1
        c1 == [c EXCEPT !.pending_verification[user_id].attempts = attempts]
    IN  IF attempts > MaxAttempts
        THEN LET c2 == ban_user(
                     [c1 EXCEPT !.pending_verification = DictDel(@, user_id)], user_id)
                 c3 == log_moderation_action(c2, user_id, "BANNED",
                           "Failed verification 3 times", "", NoAdmin, writeOk)
             IN  IF c3.fx.raised THEN c3
                 ELSE notify_admins(
                          Reply(c3, "verification_failed_banned", <<>>, ""),
                          "banned_failed_verification", user_id, down)
        ELSE Reply(c1, "wrong_answer", <<MaxAttempts - attempts>>, "")

\* handle_verification_attempt, the branch of a wrong answer
WrongAnswerBranch(c, user_id, writeOk, down) ==
    LET attempts == c.pending_verification[user_id].attempts + 1
        c1 == [c EXCEPT !.pending_verification[user_id].attempts = attempts]
    IN  IF attempts >= MaxAttempts
        THEN LET c2 == ban_user(
                     [c1 EXCEPT !.pending_verification = DictDel(@, user_id)], user_id)
                 c3 == log_moderation_action(c2, user_id, "BANNED",
                           "Failed verification 3 times", "", NoAdmin, writeOk)
             IN  IF c3.fx.raised THEN c3
                 ELSE notify_admins(
                          Reply(c3, "verification_failed_banned", <<>>, ""),
                          "banned_failed_verification", user_id, down)
        ELSE Reply(c1, "wrong_answer", <<MaxAttempts - attempts>>, "")

\* handle_verification_attempt
handle_verification_attempt(c, user_id, text, writeOk, down) ==
    IF user_id \notin DOMAIN c.pending_verification THEN c
    ELSE LET verification_data == c.pending_verification[user_id]
             user_answer == Strip(text)
             c0 == Ran(c, "answer")
         IN  IF user_answer = verification_data.answer
             THEN CorrectAnswerBranch(c0, user_id, writeOk, down)
             ELSE WrongAnswerBranch(c0, user_id, writeOk, down)

\* the text handler without the `return` after the answer: the text is moderated too
handle_message_moderation_FallsThrough(c, user_id, text, num1, num2, t, writeOk, down) ==
    LET c0 == IF user_id \in DOMAIN c.pending_verification
              THEN handle_verification_attempt(c, user_id, text, writeOk, down)
              ELSE c
        c1 == moderate_message(c0, user_id, text, num1, num2, t, writeOk, down)
    IN  IF c0.fx.raised THEN c0
        ELSE IF c1.fx.raised THEN c1
        ELSE [c1 EXCEPT !.fx.processed = c1.fx.ret]

\* handle_message_moderation: the handler of text messages that are no commands
handle_message_moderation(c, user_id, text, num1, num2, t, writeOk, down) ==
    IF user_id \in DOMAIN c.pending_verification
    THEN handle_verification_attempt(c, user_id, text, writeOk, down)
    ELSE LET c1 == moderate_message(c, user_id, text, num1, num2, t, writeOk, down)
         IN  IF c1.fx.raised THEN c1
             ELSE [c1 EXCEPT !.fx.processed = c1.fx.ret]

\* get_or_create_user, submit_meme: the ledger's writes, which raise when they fail
LedgerWrite(c, writeOk) ==
    IF writeOk THEN [c EXCEPT !.fx.processed = TRUE] ELSE [c EXCEPT !.fx.raised = TRUE]

\* handle_meme_submission: the handler of photo messages
handle_meme_submission(c, user_id, caption, num1, num2, t, writeOk, down) ==
    LET c1 == check_user_permissions(c, user_id)
    IN  IF ~c1.fx.ret THEN c1
        ELSE LET c2 == moderate_message(c1, user_id, caption, num1, num2, t, writeOk, down)
             IN  IF c2.fx.raised \/ ~c2.fx.ret THEN c2
                 ELSE LedgerWrite(c2, writeOk)

\* the command rate limit counting a warning for a flagged command and muting
\* at the threshold, as the flood branch does for messages
handle_command_rate_limit_Warns(c, user_id, t) ==
    IF is_admin(c, user_id) THEN Return(c, TRUE)
    ELSE LET c1 == is_command_spam(c, user_id, t)
             c2 == add_warning(c1, user_id)
             c3 == IF c2.user_warnings[user_id] >= MuteThreshold
                   THEN mute_user(c2, user_id) ELSE c2
         IN  IF c1.fx.ret
             THEN Return(Reply(c3, "commands_too_quickly", <<>>, ""), FALSE)
             ELSE Return(c1, TRUE)

\* handle_command_rate_limit
handle_command_rate_limit(c, user_id, t) ==
    IF is_admin(c, user_id) THEN Return(c, TRUE)
    ELSE LET c1 == is_command_spam(c, user_id, t)
         IN  IF c1.fx.ret
             THEN Return(Reply(c1, "commands_too_quickly", <<>>, ""), FALSE)
             ELSE Return(c1, TRUE)

\* the commands registered behind handle_command_rate_limit
RateLimitedCommands ==
    {"start", "help", "points", "leaderboard", "daily", "submit_meme"}

\* start and submit_meme_command begin with check_user_permissions
PermissionCheckedCommands ==
    {"start", "submit_meme"}

\* start, check_points and daily_tasks call get_or_create_user first
LedgerCommands ==
    {"start", "points", "daily"}

\* rate_limited_start .. rate_limited_submit_meme and the command behind each
rate_limited_command(c, user_id, name, t, writeOk) ==
    LET c1 == handle_command_rate_limit(c, user_id, t)
        c2 == IF name \in PermissionCheckedCommands
              THEN check_user_permissions(c1, user_id) ELSE c1
        c3 == IF name \in LedgerCommands THEN LedgerWrite(c2, writeOk) ELSE c2
    IN  IF ~c1.fx.ret THEN c1
        ELSE IF ~c2.fx.ret THEN c2
        ELSE IF c3.fx.raised THEN c3
        ELSE Reply([c3 EXCEPT !.fx.processed = TRUE], name, <<>>, "")

(***************************************************************************)
(* The admin commands                                                      *)
(***************************************************************************)
\* the guard writing a log row for an argument that is no number
AdminGuard_LogsInvalid(c, user_id, name, args, body) ==
    IF ~is_admin(c, user_id) THEN Reply(c, "admin_access_required", <<>>, "")
    ELSE IF args = <<>> THEN Reply(c, "usage", <<>>, name)
    ELSE IF ~ParseInt(args[1]).ok
    THEN Reply(log_moderation_action(c, 0, "INVALID", name, "", user_id, TRUE),
               "invalid_user_id", <<>>, "")
    ELSE body

\* the guard without its is_admin test: anybody may issue the command
AdminGuard_Open(c, user_id, name, args, body) ==
    IF args = <<>> THEN Reply(c, "usage", <<>>, name)
    ELSE IF ~ParseInt(args[1]).ok THEN Reply(c, "invalid_user_id", <<>>, "")
    ELSE body

\* the guard every admin command starts with, then `if not context.args`
\* and int(context.args[0]); body is the command's try block
AdminGuard(c, user_id, name, args, body) ==
    IF ~is_admin(c, user_id) THEN Reply(c, "admin_access_required", <<>>, "")
    ELSE IF args = <<>> THEN Reply(c, "usage", <<>>, name)
    ELSE IF ~ParseInt(args[1]).ok THEN Reply(c, "invalid_user_id", <<>>, "")
    ELSE body

Done(c) ==
    [c EXCEPT !.fx.processed = TRUE]

\* add_admin_command: add, reply, then log
add_admin_command(c, user_id, args, writeOk) ==
    LET new_admin_id == ParseInt(args[1]).value
        c1 == Reply(add_admin(c, new_admin_id), "admin_added", <<new_admin_id>>, "")
    IN  AdminGuard(c, user_id, "add_admin", args,
            Done(log_moderation_action(c1, new_admin_id, "ADMIN_ADDED",
                     "Added by admin", "", user_id, writeOk)))

\* mute_user_command: mute, log, reply, notify
mute_user_command(c, user_id, args, writeOk, down) ==
    LET target_user_id == ParseInt(args[1]).value
        c1 == log_moderation_action(mute_user(c, target_user_id), target_user_id,
                  "MUTED", "Muted by admin", "", user_id, writeOk)
    IN  AdminGuard(c, user_id, "mute", args,
            IF c1.fx.raised THEN c1
            ELSE Done(notify_admins(Reply(c1, "user_muted", <<target_user_id>>, ""),
                          "muted_by_admin", target_user_id, down)))

\* ban_user_command: ban, log, reply, notify
ban_user_command(c, user_id, args, writeOk, down) ==
    LET target_user_id == ParseInt(args[1]).value
        c1 == log_moderation_action(ban_user(c, target_user_id), target_user_id,
                  "BANNED", "Banned by admin", "", user_id, writeOk)
    IN  AdminGuard(c, user_id, "ban", args,
            IF c1.fx.raised THEN c1
            ELSE Done(notify_admins(Reply(c1, "user_banned", <<target_user_id>>, ""),
                          "banned_by_admin", target_user_id, down)))

\* unmute_user_command: unmute, log, reply
unmute_user_command(c, user_id, args, writeOk) ==
    LET target_user_id == ParseInt(args[1]).value
        c1 == log_moderation_action(unmute_user(c, target_user_id), target_user_id,
                  "UNMUTED", "Unmuted by admin", "", user_id, writeOk)
    IN  AdminGuard(c, user_id, "unmute", args,
            IF c1.fx.raised THEN c1
            ELSE Done(Reply(c1, "user_unmuted", <<target_user_id>>, "")))

\* unban_user_command: discard, log, reply
unban_user_command(c, user_id, args, writeOk) ==
    LET target_user_id == ParseInt(args[1]).value
        c1 == log_moderation_action(unban_user(c, target_user_id), target_user_id,
                  "UNBANNED", "Unbanned by admin", "", user_id, writeOk)
    IN  AdminGuard(c, user_id, "unban", args,
            IF c1.fx.raised THEN c1
            ELSE Done(Reply(c1, "user_unbanned", <<target_user_id>>, "")))

\* admin_panel and mod_stats_command: a reply, no state change
admin_info_command(c, user_id, name) ==
    IF ~is_admin(c, user_id) THEN Reply(c, "admin_access_required", <<>>, "")
    ELSE Done(Reply(c, name, <<>>, ""))

AdminCommands ==
    {"add_admin", "mute", "unmute", "ban", "unban"}

AdminInfoCommands ==
    {"admin", "mod_stats"}

\* the CommandHandler registered for each admin command
admin_command(c, user_id, name, args, writeOk, down) ==
    CASE name = "add_admin" -> add_admin_command(c, user_id, args, writeOk)
      [] name = "mute"      -> mute_user_command(c, user_id, args, writeOk, down)
      [] name = "ban"       -> ban_user_command(c, user_id, args, writeOk, down)
      [] name = "unmute"    -> unmute_user_command(c, user_id, args, writeOk)
      [] name = "unban"     -> unban_user_command(c, user_id, args, writeOk)
      [] OTHER              -> admin_info_command(c, user_id, name)

(***************************************************************************)
(* Actions: one inbound update each, handled to completion                 *)
(***************************************************************************)
\* the handler's final view becomes the state; ev records the update and its
\* effects.  The handler is run once and its result r is what is committed.
Commit(c, user_id, kind, name, text, args) ==
    \E r \in {c} :
        /\ admin_ids' = r.admin_ids
        /\ muted_users' = r.muted_users
        /\ banned_users' = r.banned_users
        /\ verified_users' = r.verified_users
        /\ pending_verification' = r.pending_verification
        /\ user_warnings' = r.user_warnings
        /\ user_messages' = r.user_messages
        /\ user_commands' = r.user_commands
        /\ user_verification' = r.user_verification
        /\ moderation_logs' = r.moderation_logs
        /\ ev' = [user |-> user_id, kind |-> kind, name |-> name, text |-> text,
                  args |-> args, at |-> now, fx |-> r.fx]
        /\ steps' = steps + 1
        /\ UNCHANGED <<now, handlers>>

\* a text message that is no command (filters.TEXT & ~filters.COMMAND)
TextMessage(user_id, text, num1, num2, writeOk, down) ==
    Commit(handle_message_moderation(Ctx, user_id, text, num1, num2, now, writeOk, down),
           user_id, "text", "", text, <<>>)

\* a photo message (filters.PHOTO), with its caption
PhotoMessage(user_id, caption, num1, num2, writeOk, down) ==
    Commit(handle_meme_submission(Ctx, user_id, caption, num1, num2, now, writeOk, down),
           user_id, "photo", "", caption, <<>>)

\* /start /help /points /leaderboard /daily /submit_meme
Command(user_id, name, writeOk) ==
    Commit(rate_limited_command(Ctx, user_id, name, now, writeOk),
           user_id, "command", name, <<>>, <<>>)

\* /add_admin /mute /unmute /ban /unban /admin /mod_stats
AdminCommand(user_id, name, args, writeOk, down) ==
    Commit(admin_command(Ctx, user_id, name, args, writeOk, down),
           user_id, "admin_command", name, <<>>, args)

\* the wall clock advances by d seconds
Tick(d) ==
    /\ now' = now + d
    /\ ev' = [user |-> 0, kind |-> "tick", name |-> "", text |-> <<>>,
              args |-> <<>>, at |-> now, fx |-> NoEffects]
    /\ steps' = steps + 1
    /\ UNCHANGED <<admin_ids, muted_users, banned_users, verified_users,
                   pending_verification, user_warnings, user_messages, user_commands,
                   user_verification, moderation_logs, handlers>>

(***************************************************************************)
(* Initial state: ModerationSystem.__init__ and a fresh store.  admin_ids  *)
(* is the set the deployment fills in at line 58; the code as it stands    *)
(* leaves it empty.                                                        *)
(***************************************************************************)
ConfiguredAdmins ==
    {{}, {2}}

InitWith(admins) ==
    /\ admin_ids = admins
    /\ muted_users = {}
    /\ banned_users = {}
    /\ verified_users = {}
    /\ pending_verification = <<>>
    /\ user_warnings = [u \in Users |-> 0]
    /\ user_messages = [u \in Users |-> <<>>]
    /\ user_commands = [u \in Users |-> <<>>]
    /\ user_verification = {}
    /\ moderation_logs = <<>>
    /\ now = 0
    /\ ev = [user |-> 0, kind |-> "none", name |-> "", text |-> <<>>,
             args |-> <<>>, at |-> 0, fx |-> NoEffects]
    /\ steps = 0
    /\ handlers = <<>>

Init ==
    \E admins \in ConfiguredAdmins : InitWith(admins)

(***************************************************************************)
(* Inputs and bounds                                                       *)
(***************************************************************************)
T_7 ==
    <<"7">>

T_7_padded ==
    <<" ", "7", "\n">>

T_14 ==
    <<"1", "4">>

T_hello ==
    <<"h", "e", "l", "l", "o">>

T_airdrop ==
    <<"F", "r", "e", "e", " ", "A", "i", "r", "D", "r", "o", "p">>

T_mention ==
    <<"h", "i", " ", "@", "a", "d", "m", "i", "n">>

Texts ==
    {T_7, T_7_padded, T_14, T_hello, T_airdrop, T_mention}

Captions ==
    {<<>>, T_airdrop}

\* the numbers random.randint(1, 10) is let to draw
Num1Draws ==
    {3, 10}

Num2Draws ==
    {4}

ArgLists ==
    { <<>>, << <<"x">> >>, << <<"1">> >>, << <<"2">> >> }

MaxSteps ==
    4

MaxClock ==
    86400

\* the updates the environment may deliver: who sends, what, and how many so far
AnyText(users, texts, num1s, limit) ==
    /\ steps < limit
    /\ \E u \in users, text \in texts, n1 \in num1s, n2 \in Num2Draws :
           TextMessage(u, text, n1, n2, TRUE, {})

AnyPhoto(users, captions, num1s, limit) ==
    /\ steps < limit
    /\ \E u \in users, caption \in captions, n1 \in num1s, n2 \in Num2Draws :
           PhotoMessage(u, caption, n1, n2, TRUE, {})

AnyCommand(users, names, limit) ==
    /\ steps < limit
    /\ \E u \in users, name \in names : Command(u, name, TRUE)

AnyAdminCommand(users, names, limit) ==
    /\ steps < limit
    /\ \E u \in users, name \in names, args \in ArgLists :
           AdminCommand(u, name, args, TRUE, {})

AnyTick(durations, limit) ==
    /\ steps < limit
    /\ \E d \in durations : now + d <= MaxClock /\ Tick(d)

\* every handler, two chats, at most MaxSteps updates
Next ==
    \/ AnyText(Users, Texts, Num1Draws, MaxSteps)
    \/ AnyPhoto(Users, Captions, Num1Draws, MaxSteps)
    \/ AnyCommand(Users, {"start", "help"}, MaxSteps)
    \/ AnyAdminCommand(Users, AdminCommands, MaxSteps)
    \/ AnyTick({1}, MaxSteps)

Spec ==
    Init /\ [][Next]_vars

MaxVerifySteps ==
    6

\* one chat working through the verification: texts, photos, a command, the clock
NextVerify ==
    \/ AnyText({1}, {T_7, T_7_padded, T_14, T_hello}, Num1Draws, MaxVerifySteps)
    \/ AnyPhoto({1}, {<<>>}, Num1Draws, MaxVerifySteps)
    \/ AnyCommand({1}, {"start"}, MaxVerifySteps)
    \/ AnyTick({30}, MaxVerifySteps)

SpecVerify ==
    Init /\ [][NextVerify]_vars

MaxFloodSteps ==
    15

\* one chat sending the same message or command over and over, a day passing
\* at some point
NextFlood ==
    \/ AnyText({1}, {T_7}, {3}, MaxFloodSteps)
    \/ AnyCommand({1}, {"help"}, MaxFloodSteps)
    \/ AnyTick({SecondsPerDay}, MaxFloodSteps)

SpecFlood ==
    Init /\ [][NextFlood]_vars

(***************************************************************************)
(* The moderation gate: who gets through                                   *)
(***************************************************************************)
\* the updates that go through the moderation gate
GateKinds ==
    {"text", "photo", "command"}

\* the step handled an update of this kind from user u
Handled(u, kinds) ==
    ev'.user = u /\ ev'.kind \in kinds /\ steps' = steps + 1

ContentChecks ==
    {"flood", "keyword", "pattern"}

IsVerified(u) ==
    u \in verified_users \/ u \in user_verification

\* C1: every update (text, photo, command) of a banned user who is no admin is
\* blocked: it is not processed, no challenge is issued for it and no flood,
\* keyword or pattern check runs on it, muted or verified or not.
C1_BannedIsBlocked ==
    [][\A u \in Users :
          (Handled(u, GateKinds) /\ u \in banned_users /\ u \notin admin_ids)
          => /\ ~ev'.fx.processed
             /\ ev'.fx.checks \cap (ContentChecks \cup {"challenge_issued"}) = {}]_vars

\* C2: every update of a muted user who is no admin is blocked with no further
\* check: the user's message window, command window and warning count and the
\* moderation log are as before.
C2_MutedIsBlocked ==
    [][\A u \in Users :
          (Handled(u, GateKinds) /\ u \in muted_users /\ u \notin admin_ids)
          => /\ ~ev'.fx.processed
             /\ user_messages'[u] = user_messages[u]
             /\ user_commands'[u] = user_commands[u]
             /\ user_warnings'[u] = user_warnings[u]
             /\ moderation_logs' = moderation_logs]_vars

\* C3: every update of an admin is allowed, whatever the state: no challenge is
\* issued, no answer evaluated, no flood, keyword or pattern check applied, and
\* the admin's pending entry, warning count and memberships are as before.
C3_AdminIsAllowed ==
    [][\A u \in Users :
          (Handled(u, GateKinds) /\ u \in admin_ids)
          => /\ ev'.fx.processed
             /\ ev'.fx.checks \cap (ContentChecks \cup {"challenge_issued", "answer"}) = {}
             /\ pending_verification' = pending_verification
             /\ user_warnings'[u] = user_warnings[u]
             /\ (u \in muted_users') = (u \in muted_users)
             /\ (u \in banned_users') = (u \in banned_users)
             /\ (u \in verified_users') = (u \in verified_users)]_vars

\* C4: every update (message, photo or command) of a user who is no admin, not
\* banned, not muted, not verified and has no pending challenge creates a
\* pending challenge for the user and is blocked.
C4_UnverifiedIsChallenged ==
    [][\A u \in Users :
          (/\ Handled(u, GateKinds)
           /\ u \notin admin_ids \cup banned_users \cup muted_users
           /\ ~IsVerified(u)
           /\ u \notin DOMAIN pending_verification)
          => /\ u \in DOMAIN pending_verification'
             /\ ~ev'.fx.processed]_vars

(***************************************************************************)
(* The verification workflow                                               *)
(***************************************************************************)
\* text is answer with nothing but whitespace before and after it
TrimsTo(text, answer) ==
    \E i, j \in DOMAIN text :
        /\ SubSeq(text, i, j) = answer
        /\ \A k \in DOMAIN text : (k < i \/ k > j) => text[k] \in {" ", "\t", "\n", "\r"}

HasPending(u) ==
    u \in DOMAIN pending_verification

OnlyReply(e, kind, args) ==
    e.fx.replies = <<[kind |-> kind, args |-> args, tag |-> ""]>>

\* C5: a text whose trimmed value is the expected answer destroys the pending
\* entry and makes the user verified; this happens once: every later text of
\* the user finds no pending entry, is not evaluated as an answer and changes
\* neither verified, banned nor the pending map.
C5_CorrectAnswerVerifiesOnce ==
    [][\A u \in Users :
          /\ (/\ Handled(u, {"text"})
              /\ HasPending(u)
              /\ TrimsTo(ev'.text, pending_verification[u].answer))
             => /\ u \notin DOMAIN pending_verification'
                /\ u \in verified_users'
                /\ OnlyReply(ev', "verification_successful", <<>>)
          /\ (Handled(u, {"text"}) /\ u \in verified_users)
             => /\ ~HasPending(u)
                /\ "answer" \notin ev'.fx.checks
                /\ verified_users' = verified_users
                /\ banned_users' = banned_users
                /\ pending_verification' = pending_verification]_vars

\* C5 witness: a user verified by an answer has sent the same text once more
C5_Witness ==
    /\ ev.kind = "text"
    /\ ev.text \in {T_7, T_7_padded}
    /\ ev.user \in verified_users
    /\ "flood" \in ev.fx.checks
    /\ ~HasPending(ev.user)

BannedLogEntry(u) ==
    [user_id |-> u, action |-> "BANNED", reason |-> "Failed verification 3 times",
     detail |-> "", admin_id |-> NoAdmin]

\* C6: the third wrong answer to a pending challenge bans the user, destroys
\* the pending entry and appends one BANNED log entry; a further text of the
\* user after that ban finds no pending entry and creates none.
C6_ThirdWrongAnswerBans ==
    [][\A u \in Users :
          /\ (/\ Handled(u, {"text"})
              /\ HasPending(u)
              /\ ~TrimsTo(ev'.text, pending_verification[u].answer)
              /\ pending_verification[u].attempts = 2)
             => /\ u \in banned_users'
                /\ u \notin DOMAIN pending_verification'
                /\ moderation_logs' = Append(moderation_logs, BannedLogEntry(u))
          /\ (/\ Handled(u, {"text"})
              /\ u \in banned_users
              /\ \E i \in DOMAIN moderation_logs : moderation_logs[i] = BannedLogEntry(u)
              /\ ~HasPending(u))
             => u \notin DOMAIN pending_verification']_vars

\* C7: a wrong answer that leaves the attempt counter below 3 adds one to the
\* counter, keeps the entry and its expected answer, reports 3 - attempts as
\* remaining, and changes neither verified nor banned.
C7_WrongAnswerCounts ==
    [][\A u \in Users :
          (/\ Handled(u, {"text"})
           /\ HasPending(u)
           /\ ~TrimsTo(ev'.text, pending_verification[u].answer)
           /\ pending_verification[u].attempts + 1 < 3)
          => /\ pending_verification' =
                    [pending_verification EXCEPT ![u].attempts = @ + 1]
             /\ OnlyReply(ev', "wrong_answer", <<3 - pending_verification'[u].attempts>>)
             /\ verified_users' = verified_users
             /\ banned_users' = banned_users]_vars

\* C7 witness: the second wrong answer has been counted, one attempt remains
C7_Witness ==
    /\ ev.kind = "text"
    /\ HasPending(ev.user)
    /\ pending_verification[ev.user].attempts = 2
    /\ OnlyReply(ev, "wrong_answer", <<1>>)

\* C8: issuing a challenge to a user who has one pending reissues nothing: the
\* pending map (answer, attempts, timestamp) is as before, the user is told to
\* complete the verification, and nothing is raised.
C8_NoReissue ==
    [][\A u \in Users :
          (Handled(u, GateKinds) /\ HasPending(u) /\ "verification" \in ev'.fx.checks)
          => /\ pending_verification' = pending_verification
             /\ "challenge_issued" \notin ev'.fx.checks
             /\ OnlyReply(ev', "complete_verification_first", <<>>)
             /\ ~ev'.fx.raised]_vars

\* C8 witness: a photo of a user whose challenge was issued earlier and has a
\* failed attempt on it was answered with `complete your verification first`
C8_Witness ==
    /\ ev.kind = "photo"
    /\ "verification" \in ev.fx.checks
    /\ HasPending(ev.user)
    /\ pending_verification[ev.user].timestamp < now
    /\ pending_verification[ev.user].attempts >= 1
    /\ OnlyReply(ev, "complete_verification_first", <<>>)

(***************************************************************************)
(* Flood tracking and escalation                                           *)
(***************************************************************************)
\* the entries of a window that are less than 60 seconds old at time t
WithinMinute(window, t) ==
    Cardinality({ i \in DOMAIN window : t - window[i] < 60 })

RepliedWith(e, kinds) ==
    \E i \in DOMAIN e.fx.replies : e.fx.replies[i].kind \in kinds

\* C9: the flood check flags a message exactly when it makes the number of the
\* user's messages of the trailing 60 seconds exceed 10 (the 11th, not the
\* 10th); the command check flags exactly when the commands of the trailing
\* 60 seconds exceed 5 (the 6th, not the 5th).
C9_FloodBoundary ==
    /\ (ev.kind \in {"text", "photo"} /\ "flood" \in ev.fx.checks)
       => (RepliedWith(ev, {"flood_warning", "muted_for_flood"})
           <=> WithinMinute(user_messages[ev.user], ev.at) > 10)
    /\ (ev.kind = "command" /\ "command_rate" \in ev.fx.checks)
       => (RepliedWith(ev, {"commands_too_quickly"})
           <=> WithinMinute(user_commands[ev.user], ev.at) > 5)

\* C10: a flood flag for a verified user who is no admin adds one to the user's
\* warning count; below 3 there is only the warning reply (no mute, no log
\* entry, no admin notification); from 3 on the user is muted, a MUTED entry is
\* logged and the admins are notified; either way the message is deleted, is
\* not processed, and the keyword and pattern checks are not run.
C10_FloodEscalation ==
    [][\A u \in Users :
          (/\ Handled(u, {"text", "photo"})
           /\ u \notin admin_ids
           /\ IsVerified(u)
           /\ "flood" \in ev'.fx.checks
           /\ FloodFlag(user_messages'[u], now, ev'.text))
          => /\ user_warnings'[u] = user_warnings[u] + 1
             /\ ev'.fx.deleted
             /\ ~ev'.fx.processed
             /\ ev'.fx.checks \cap {"keyword", "pattern"} = {}
             /\ IF user_warnings'[u] < 3
                THEN /\ OnlyReply(ev', "flood_warning", <<user_warnings'[u]>>)
                     /\ muted_users' = muted_users
                     /\ moderation_logs' = moderation_logs
                     /\ ev'.fx.notified = <<>>
                ELSE /\ OnlyReply(ev', "muted_for_flood", <<>>)
                     /\ muted_users' = muted_users \cup {u}
                     /\ moderation_logs' = Append(moderation_logs,
                            [user_id |-> u, action |-> "MUTED",
                             reason |-> "Flood spam (3 warnings)", detail |-> "",
                             admin_id |-> NoAdmin])
                     /\ ev'.fx.notified =
                            <<[message |-> "muted_for_flood", about |-> u,
                               sent |-> admin_ids, failed |-> {}]>>]_vars

\* C10 witness: the third flood flag of a user has muted the user and told admin 2
C10_Witness ==
    /\ ev.kind = "text"
    /\ user_warnings[ev.user] = 3
    /\ ev.user \in muted_users
    /\ ev.fx.deleted
    /\ OnlyReply(ev, "muted_for_flood", <<>>)
    /\ Len(ev.fx.notified) = 1
    /\ ev.fx.notified[1].sent = {2}

(***************************************************************************)
(* Content moderation: keywords and patterns                               *)
(***************************************************************************)
MaxModerateSteps ==
    5

\* one chat that verifies and then sends clean, keyword and pattern messages and
\* photos, while admin 2 mutes and unmutes
NextModerate ==
    \/ AnyText({1}, {T_7, T_airdrop, T_mention}, {3}, MaxModerateSteps)
    \/ AnyPhoto({1}, {<<>>, T_airdrop, T_mention}, {3}, MaxModerateSteps)
    \/ AnyAdminCommand({2}, {"mute", "unmute"}, MaxModerateSteps)
    \/ AnyTick({30}, MaxModerateSteps)

SpecModerate ==
    Init /\ [][NextModerate]_vars

\* the step handled a message of u that the gate lets through to the content
\* checks: u is no admin, verified, neither banned nor muted
ReachesContentChecks(u) ==
    /\ Handled(u, {"text", "photo"})
    /\ u \notin admin_ids \cup banned_users \cup muted_users
    /\ IsVerified(u)

\* C11: a message of a verified user who is no admin (and neither banned nor
\* muted) that is not flood-flagged and contains a configured keyword is
\* deleted, one MESSAGE_DELETED entry naming the matched category is logged, the
\* admins are notified, and processing stops: the pattern check is not run and
\* the event is not processed; warning count, muted and banned are as before.
C11_KeywordDeletes ==
    [][\A u \in Users :
          (/\ ReachesContentChecks(u)
           /\ ~FloodFlag(user_messages'[u], now, ev'.text)
           /\ contains_spam_keywords(ev'.text)[1])
          => /\ ev'.fx.deleted
             /\ moderation_logs' = Append(moderation_logs,
                    [user_id |-> u, action |-> "MESSAGE_DELETED",
                     reason |-> "Spam keywords",
                     detail |-> contains_spam_keywords(ev'.text)[2],
                     admin_id |-> NoAdmin])
             /\ ev'.fx.notified = <<[message |-> "deleted_message", about |-> u,
                                     sent |-> admin_ids, failed |-> {}]>>
             /\ ~ev'.fx.processed
             /\ "pattern" \notin ev'.fx.checks
             /\ user_warnings' = user_warnings
             /\ muted_users' = muted_users
             /\ banned_users' = banned_users]_vars

\* C11 witness: "Free AirDrop" of a verified user was deleted, logged as scam,
\* and admin 2 was told
C11_Witness ==
    /\ ev.kind \in {"text", "photo"}
    /\ ev.text = T_airdrop
    /\ ev.user \in verified_users
    /\ ev.fx.deleted
    /\ moderation_logs # <<>>
    /\ moderation_logs[Len(moderation_logs)].action = "MESSAGE_DELETED"
    /\ moderation_logs[Len(moderation_logs)].detail = "scam"
    /\ Len(ev.fx.notified) = 1
    /\ ev.fx.notified[1].sent = {2}

(***************************************************************************)
(* The keyword classifier on its own                                       *)
(***************************************************************************)
\* pieces the classified texts are put together from: keywords of the three
\* categories in mixed case, halves of a keyword, a blank, a harmless word
Fragments ==
    { <<"P", "u", "M", "p">>, <<"S", "u", "b", "s", "c", "r", "i", "b", "e">>,
      <<"r", "a", "i", "d">>, <<"p", "u">>, <<"m", "p">>, <<" ">>, <<"h", "i">> }

MaxFragments ==
    3

RECURSIVE Concatenations(_)
\* the texts made of at most n fragments
Concatenations(n) ==
    IF n = 0 THEN { <<>> }
    ELSE LET shorter == Concatenations(n - 1)
         IN  shorter \cup { s \o f : s \in shorter, f \in Fragments }

\* a fresh ModerationSystem and a text about to be classified
InitClassify ==
    /\ admin_ids = {}
    /\ muted_users = {}
    /\ banned_users = {}
    /\ verified_users = {}
    /\ pending_verification = <<>>
    /\ user_warnings = [u \in Users |-> 0]
    /\ user_messages = [u \in Users |-> <<>>]
    /\ user_commands = [u \in Users |-> <<>>]
    /\ user_verification = {}
    /\ moderation_logs = <<>>
    /\ now = 0
    /\ \E text \in Concatenations(MaxFragments) :
           ev = [user |-> 0, kind |-> "input", name |-> "", text |-> text,
                 args |-> <<>>, at |-> 0, fx |-> NoEffects]
    /\ steps = 0
    /\ handlers = <<>>

\* contains_spam_keywords(ev.text) is called; ev then holds what it returned
Classify ==
    /\ ev.kind = "input"
    /\ LET r == contains_spam_keywords(ev.text)
       IN  ev' = [ev EXCEPT !.kind = "classify", !.name = r[2], !.fx.ret = r[1]]
    /\ UNCHANGED <<admin_ids, muted_users, banned_users, verified_users,
                   pending_verification, user_warnings, user_messages,
                   user_commands, user_verification, moderation_logs, now, steps,
                   handlers>>

NextClassify ==
    Classify

SpecClassify ==
    InitClassify /\ [][NextClassify]_vars

\* some keyword of the list occurs in the lower-cased text
HasKeywordOf(keywords, text) ==
    \E i \in DOMAIN keywords : IsSubstring(keywords[i], Lower(text))

\* C12: the classifier returns (true, C) with C the first of scam, promo, raid
\* that has a keyword occurring in the lower-cased text, and (false, "") when
\* none has; the result is a function of the text alone.
C12_FirstCategoryWins ==
    ev.kind = "classify"
    => /\ ev.fx.ret = (HasKeywordOf(Kw_scam, ev.text) \/ HasKeywordOf(Kw_promo, ev.text)
                          \/ HasKeywordOf(Kw_raid, ev.text))
       /\ ev.name = IF HasKeywordOf(Kw_scam, ev.text) THEN "scam"
                    ELSE IF HasKeywordOf(Kw_promo, ev.text) THEN "promo"
                    ELSE IF HasKeywordOf(Kw_raid, ev.text) THEN "raid"
                    ELSE ""

\* C12 witness: "raidSubscribePuMp" has a keyword of every category and was
\* classified as scam
C12_Witness ==
    /\ ev.kind = "classify"
    /\ ev.text = <<"r", "a", "i", "d", "S", "u", "b", "s", "c", "r", "i", "b", "e",
                   "P", "u", "M", "p">>
    /\ ev.fx.ret
    /\ ev.name = "scam"

\* C13: a message that passes the flood and keyword checks and matches a
\* suspicious pattern is neither deleted nor blocked: the user gets the soft
\* warning, the admins are notified, nothing is logged, the warning count and
\* the memberships are as before, and the event is processed as a message with
\* no violation is.
C13_PatternOnlyWarns ==
    [][\A u \in Users :
          (/\ ReachesContentChecks(u)
           /\ ~FloodFlag(user_messages'[u], now, ev'.text)
           /\ ~contains_spam_keywords(ev'.text)[1]
           /\ is_suspicious_pattern(ev'.text))
          => /\ ~ev'.fx.deleted
             /\ ev'.fx.processed
             /\ ev'.fx.replies[1] = [kind |-> "suspicious_pattern", args |-> <<>>, tag |-> ""]
             /\ ev'.fx.notified = <<[message |-> "suspicious_pattern", about |-> u,
                                     sent |-> admin_ids, failed |-> {}]>>
             /\ moderation_logs' = moderation_logs
             /\ user_warnings' = user_warnings
             /\ muted_users' = muted_users
             /\ banned_users' = banned_users]_vars

\* C13 witness: a photo captioned "hi @admin" of a verified user got the soft
\* warning, was left in place and went on to be handled as a submission
C13_Witness ==
    /\ ev.kind = "photo"
    /\ ev.text = T_mention
    /\ ev.user \in verified_users
    /\ RepliedWith(ev, {"suspicious_pattern"})
    /\ ~ev.fx.deleted
    /\ ev.fx.processed
    /\ Len(ev.fx.notified) = 1

(***************************************************************************)
(* The admin commands and the membership sets                              *)
(***************************************************************************)
MaxAdminSteps ==
    4

\* both chats issue every admin command with every argument list, chat 1 also
\* works on its verification
NextAdmin ==
    \/ AnyText({1}, {T_7, T_14}, {3}, MaxAdminSteps)
    \/ AnyAdminCommand(Users, AdminCommands, MaxAdminSteps)

SpecAdmin ==
    Init /\ [][NextAdmin]_vars

MembershipCommands ==
    {"mute", "unmute", "ban", "unban"}

\* the step handled the admin command `name` and ran it to its end
Executed(e, names) ==
    e.kind = "admin_command" /\ e.name \in names /\ e.fx.processed

\* C14: mute, unmute, ban and unban applied twice in a row with the same user
\* id: the second application leaves the muted and the banned set as the first
\* left them, raises nothing and completes.
C14_MembershipIdempotent ==
    [][(/\ Executed(ev, MembershipCommands)
        /\ ev'.kind = "admin_command"
        /\ ev'.name = ev.name
        /\ ev'.args = ev.args
        /\ ev'.user \in admin_ids
        /\ steps' = steps + 1)
       => /\ muted_users' = muted_users
          /\ banned_users' = banned_users
          /\ ~ev'.fx.raised
          /\ ev'.fx.processed]_vars

\* C14 witness: /unban 1 was executed twice in a row (and chat 1 was never banned)
C14_Witness ==
    /\ Executed(ev, {"unban"})
    /\ ev.args = << <<"1">> >>
    /\ Len(moderation_logs) >= 2
    /\ moderation_logs[Len(moderation_logs)].action = "UNBANNED"
    /\ moderation_logs[Len(moderation_logs) - 1].action = "UNBANNED"
    /\ moderation_logs[Len(moderation_logs) - 1].user_id = 1
    /\ banned_users = {}

\* C15: a user in the banned set stays in it across every step except the
\* execution of /unban for that user by an admin: no mute, unmute, add_admin,
\* verification success or further message of the user removes the ban.
C15_BanUntilUnban ==
    [][\A u \in Users :
          (u \in banned_users /\ u \notin banned_users')
          => /\ Executed(ev', {"unban"})
             /\ ev'.user \in admin_ids
             /\ ev'.args # <<>>
             /\ ParseInt(ev'.args[1]) = [ok |-> TRUE, value |-> u]]_vars

\* C15 witness: chat 1, banned by the admin, has since been challenged and has
\* answered correctly: it is verified and still banned
C15_Witness ==
    /\ ev.kind = "text"
    /\ ev.user = 1
    /\ OnlyReply(ev, "verification_successful", <<>>)
    /\ 1 \in verified_users
    /\ 1 \in banned_users

\* C17: an admin command (add_admin, mute, unmute, ban, unban) whose user-id
\* argument is missing or is no number only sends one message to the caller:
\* the admin, muted and banned sets, the warning counts and the moderation log
\* are as before, nobody is notified and nothing is raised.
C17_MalformedArgument ==
    [][(/\ ev'.kind = "admin_command"
        /\ steps' = steps + 1
        /\ ev'.name \in {"add_admin", "mute", "unmute", "ban", "unban"}
        /\ (ev'.args = <<>> \/ ~ParseInt(ev'.args[1]).ok))
       => /\ admin_ids' = admin_ids
          /\ muted_users' = muted_users
          /\ banned_users' = banned_users
          /\ user_warnings' = user_warnings
          /\ moderation_logs' = moderation_logs
          /\ Len(ev'.fx.replies) = 1
          /\ ev'.fx.notified = <<>>
          /\ ~ev'.fx.raised]_vars

\* C17 witness: admin 2, with a row in the log and chat 1 muted, sent /ban x and
\* got `invalid user id`
C17_Witness ==
    /\ ev.kind = "admin_command"
    /\ ev.name = "ban"
    /\ ev.args = << <<"x">> >>
    /\ ev.user \in admin_ids
    /\ OnlyReply(ev, "invalid_user_id", <<>>)
    /\ muted_users = {1}
    /\ banned_users = {}
    /\ moderation_logs # <<>>

\* C16: no user is both verified and in the pending-verification map: once a
\* user is verified no later event of the user creates a pending challenge.
C16_VerifiedNeverPending ==
    \A u \in Users : IsVerified(u) => u \notin DOMAIN pending_verification

\* C16 witness: a verified user has sent a photo, which went through the gate
\* and was processed, and nothing is pending
C16_Witness ==
    /\ ev.kind = "photo"
    /\ ev.user \in verified_users
    /\ ev.user \in user_verification
    /\ ev.fx.processed
    /\ "verification" \notin ev.fx.checks
    /\ DOMAIN pending_verification = {}

(***************************************************************************)
(* Failures of the store and of the transport                              *)
(***************************************************************************)
\* the updates delivered while the store's writes succeed or fail as `writes`
\* allows and the admins in one of the sets `downs` cannot be reached
AnyTextUnder(users, texts, num1s, limit, writes, downs) ==
    /\ steps < limit
    /\ \E u \in users, text \in texts, n1 \in num1s, n2 \in Num2Draws,
          writeOk \in writes, down \in downs :
           TextMessage(u, text, n1, n2, writeOk, down)

AnyPhotoUnder(users, captions, num1s, limit, writes, downs) ==
    /\ steps < limit
    /\ \E u \in users, caption \in captions, n1 \in num1s, n2 \in Num2Draws,
          writeOk \in writes, down \in downs :
           PhotoMessage(u, caption, n1, n2, writeOk, down)

AnyAdminCommandUnder(users, names, arglists, limit, writes, downs) ==
    /\ steps < limit
    /\ \E u \in users, name \in names, args \in arglists,
          writeOk \in writes, down \in downs :
           AdminCommand(u, name, args, writeOk, down)

MaxFaultSteps ==
    15

\* the admin acts only as the first update of a run
MaxFaultAdminSteps ==
    1

\* one chat verifying, then sending clean and keyword messages until it is
\* muted for flooding, every write of the store free to fail
NextWriteFault ==
    \/ AnyTextUnder({1}, {T_7, T_14, T_airdrop}, {3}, MaxFaultSteps, BOOLEAN, {{}})
    \/ AnyAdminCommandUnder({2}, {"mute", "ban"}, {<< <<"1">> >>},
                            MaxFaultAdminSteps, BOOLEAN, {{}})

SpecWriteFault ==
    Init /\ [][NextWriteFault]_vars

\* C18: when the write to the store fails on an enforcement path, the
\* enforcement still takes full effect: a flood flag at the mute threshold
\* mutes and deletes the message, a keyword message is deleted, the third wrong
\* answer bans, a correct answer verifies, an admin's /mute and /ban take
\* effect.
C18_EnforcementSurvivesWriteFailure ==
    [][/\ \A u \in Users :
             (Handled(u, {"text", "photo"}) /\ ev'.fx.raised)
             => /\ ("flood" \in ev'.fx.checks /\ "keyword" \notin ev'.fx.checks)
                   => (u \in muted_users' /\ ev'.fx.deleted)
                /\ ("keyword" \in ev'.fx.checks /\ contains_spam_keywords(ev'.text)[1])
                   => ev'.fx.deleted
                /\ "answer" \in ev'.fx.checks
                   => /\ u \notin DOMAIN pending_verification'
                      /\ IF TrimsTo(ev'.text, pending_verification[u].answer)
                         THEN u \in verified_users'
                         ELSE u \in banned_users'
       /\ (ev'.kind = "admin_command" /\ steps' = steps + 1 /\ ev'.fx.raised)
          => /\ ev'.name = "mute" => ParseInt(ev'.args[1]).value \in muted_users'
             /\ ev'.name = "ban" => ParseInt(ev'.args[1]).value \in banned_users']_vars

MaxNotifySteps ==
    16

\* the sets of admins that may be unreachable when a notification goes out
Outages ==
    SUBSET {2, 3}

\* admin 2 first adds admin 3 or mutes chat 1; chat 1 verifies and then sends
\* clean and keyword messages until it is muted for flooding; any of the
\* admins may be unreachable
NextNotifyFault ==
    \/ AnyTextUnder({1}, {T_7, T_airdrop}, {3}, MaxNotifySteps, {TRUE}, Outages)
    \/ AnyAdminCommandUnder({2}, {"add_admin", "mute"}, {<< <<"3">> >>, << <<"1">> >>},
                            MaxFaultAdminSteps, {TRUE}, Outages)

SpecNotifyFault ==
    Init /\ [][NextNotifyFault]_vars

\* what the handler of the update e does from the current state when every
\* delivery succeeds
AllDelivered(e) ==
    CASE e.kind = "text" ->
             handle_message_moderation(Ctx, e.user, e.text, 3, 4, now, TRUE, {})
      [] e.kind = "photo" ->
             handle_meme_submission(Ctx, e.user, e.text, 3, 4, now, TRUE, {})
      [] OTHER ->
             admin_command(Ctx, e.user, e.name, e.args, TRUE, {})

\* C19: when the delivery of a notification to some admin fails, every admin
\* is still attempted (each is either sent to or failed), nothing is raised or
\* shown to the originating user, and the replies, the deletion, the log and
\* the memberships are those of the run in which every delivery succeeds.
C19_NotificationFailureIsolated ==
    [][(/\ ev'.kind \in {"text", "photo", "admin_command"}
        /\ steps' = steps + 1
        /\ \E i \in DOMAIN ev'.fx.notified : ev'.fx.notified[i].failed # {})
       => /\ \A i \in DOMAIN ev'.fx.notified :
                 /\ ev'.fx.notified[i].sent \cup ev'.fx.notified[i].failed = admin_ids'
                 /\ ev'.fx.notified[i].sent \cap ev'.fx.notified[i].failed = {}
          /\ ~ev'.fx.raised
          /\ \A ok \in {AllDelivered(ev')} :
                 /\ ev'.fx.replies = ok.fx.replies
                 /\ ev'.fx.deleted = ok.fx.deleted
                 /\ ev'.fx.processed = ok.fx.processed
                 /\ Len(ev'.fx.notified) = Len(ok.fx.notified)
                 /\ muted_users' = ok.muted_users
                 /\ banned_users' = ok.banned_users
                 /\ verified_users' = ok.verified_users
                 /\ user_warnings' = ok.user_warnings
                 /\ moderation_logs' = ok.moderation_logs]_vars

\* C19 witness: the third flood flag muted chat 1 and deleted the message while
\* admin 2 was unreachable and admin 3 was told
C19_Witness ==
    /\ ev.kind = "text"
    /\ OnlyReply(ev, "muted_for_flood", <<>>)
    /\ ev.fx.deleted
    /\ 1 \in muted_users
    /\ Len(ev.fx.notified) = 1
    /\ ev.fx.notified[1].failed = {2}
    /\ ev.fx.notified[1].sent = {3}
    /\ moderation_logs[Len(moderation_logs)].action = "MUTED"

(***************************************************************************)
(* Handlers interleaved at their awaits.  A handler coroutine runs without *)
(* interruption up to its first awaited transport call (reply_text,        *)
(* send_message, delete); every other handler may run while it is          *)
(* suspended there.  On every path of handle_message_moderation the writes *)
(* to the shared state precede the first await, except on the keyword path,*)
(* where the log row is written after `await update.message.delete()`.     *)
(***************************************************************************)
\* the transport calls the handler awaits: its replies, its deletion, and one
\* send per admin of its notification (no path notifies twice)
AwaitCount(fx) ==
    Len(fx.replies) + (IF fx.deleted THEN 1 ELSE 0)
      + (IF fx.notified = <<>> THEN 0
         ELSE Cardinality(fx.notified[1].sent \cup fx.notified[1].failed))

\* the handler's local variable `warnings` written back to the shared counter
\* when the handler resumes
resume_WritesBackWarnings(c, h) ==
    IF h.flagged
    THEN [c EXCEPT !.moderation_logs = @ \o h.deferred,
                   !.user_warnings[h.user] = h.warnings]
    ELSE [c EXCEPT !.moderation_logs = @ \o h.deferred]

\* what a suspended handler writes when it resumes: on the keyword path the
\* log row that follows the awaited deletion, nothing on the other paths
resume(c, h) ==
    [c EXCEPT !.moderation_logs = @ \o h.deferred]

\* handle_message_moderation is started for a text message and runs up to its
\* first await
StartText(user_id, text, num1, num2) ==
    \E r \in {handle_message_moderation(Ctx, user_id, text, num1, num2, now, TRUE, {})} :
        LET keywordPath == "keyword" \in r.fx.checks /\ r.fx.deleted
            checked == "flood" \in r.fx.checks
        IN  /\ admin_ids' = r.admin_ids
            /\ muted_users' = r.muted_users
            /\ banned_users' = r.banned_users
            /\ verified_users' = r.verified_users
            /\ pending_verification' = r.pending_verification
            /\ user_warnings' = r.user_warnings
            /\ user_messages' = r.user_messages
            /\ user_commands' = r.user_commands
            /\ user_verification' = r.user_verification
            /\ moderation_logs' = IF keywordPath THEN moderation_logs
                                  ELSE r.moderation_logs
            /\ handlers' = Append(handlers,
                   [user |-> user_id,
                    checked |-> checked,
                    flagged |-> checked /\ "keyword" \notin r.fx.checks,
                    warnings |-> r.user_warnings[user_id],
                    awaits |-> AwaitCount(r.fx),
                    deferred |-> IF keywordPath
                                 THEN SubSeq(r.moderation_logs, Len(moderation_logs) + 1,
                                             Len(r.moderation_logs))
                                 ELSE <<>>])
            /\ ev' = [user |-> user_id, kind |-> "text", name |-> "", text |-> text,
                      args |-> <<>>, at |-> now, fx |-> r.fx]
            /\ steps' = steps + 1
            /\ UNCHANGED now

\* the awaited call of handler i returns and the handler runs to its next await
Resume(i) ==
    /\ handlers[i].awaits > 0
    /\ \E r \in {resume(Ctx, handlers[i])} :
           /\ moderation_logs' = r.moderation_logs
           /\ user_warnings' = r.user_warnings
    /\ handlers' = [handlers EXCEPT ![i].awaits = @ - 1, ![i].deferred = <<>>]
    /\ UNCHANGED <<admin_ids, muted_users, banned_users, verified_users,
                   pending_verification, user_messages, user_commands,
                   user_verification, now, ev, steps>>

MaxHandlers ==
    15

AnyStart(users, texts, num1s, limit) ==
    /\ steps < limit
    /\ \E u \in users, text \in texts, n1 \in num1s, n2 \in Num2Draws :
           StartText(u, text, n1, n2)

AnyResume ==
    \E i \in DOMAIN handlers : Resume(i)

\* one chat sending messages whose handlers overlap in every possible way
NextInterleaved ==
    \/ AnyStart({1}, {T_7}, {3}, MaxHandlers)
    \/ AnyResume

SpecInterleaved ==
    Init /\ [][NextInterleaved]_vars

\* the handlers started for u's messages that the predicate holds of
HandlersOf(u, P(_)) ==
    { i \in DOMAIN handlers : handlers[i].user = u /\ P(handlers[i]) }

WasFlagged(h) ==
    h.flagged

WasChecked(h) ==
    h.checked

\* C20: however the handlers of one user's messages interleave at their awaits,
\* no update is lost: the user's warning count is the number of the user's
\* flood-flagged messages handled so far, and every message that went through
\* the flood check has put one timestamp into the user's message window.
C20_NoLostUpdate ==
    \A u \in Users :
        /\ user_warnings[u] = Cardinality(HandlersOf(u, WasFlagged))
        /\ Len(user_messages[u]) = Cardinality(HandlersOf(u, WasChecked))

\* C20 witness: of two flagged handlers the later one has finished while the
\* earlier one is still suspended at an await, and both warnings are counted
C20_Witness ==
    \E i, j \in DOMAIN handlers :
        /\ i < j
        /\ handlers[i].flagged /\ handlers[j].flagged
        /\ handlers[i].awaits > 0
        /\ handlers[j].awaits = 0
        /\ user_warnings[1] = 2

(***************************************************************************)
(* The age of a window entry                                               *)
(***************************************************************************)
MaxAgingSteps ==
    7

MaxAgingClock ==
    86500

\* the wall clock advances, up to a given time
AnyTickUntil(durations, limit, clock) ==
    /\ steps < limit
    /\ \E d \in durations : now + d <= clock /\ Tick(d)

\* one chat whose messages and commands are a few seconds, a minute or a day apart
NextAging ==
    \/ AnyText({1}, {T_7}, {3}, MaxAgingSteps)
    \/ AnyCommand({1}, {"help"}, MaxAgingSteps)
    \/ AnyTickUntil({5, 61, SecondsPerDay}, MaxAgingSteps, MaxAgingClock)

SpecAging ==
    Init /\ [][NextAging]_vars

\* C21: the number of entries the flood check counts is the number of window
\* entries less than 60 seconds old; an older entry does not count, whatever
\* its age, a day and a few seconds included.  For messages and for commands.
C21_CountIsTrailingMinute ==
    /\ (ev.kind = "text" /\ "flood" \in ev.fx.checks)
       => RecentCount(user_messages[ev.user], ev.at)
              = WithinMinute(user_messages[ev.user], ev.at)
    /\ (ev.kind = "command" /\ "command_rate" \in ev.fx.checks)
       => RecentCount(user_commands[ev.user], ev.at)
              = WithinMinute(user_commands[ev.user], ev.at)

(***************************************************************************)
(* The outcomes of the verification                                        *)
(***************************************************************************)
\* u was banned by handle_verification_attempt and is banned still
BannedByVerification(u) ==
    /\ u \in banned_users
    /\ \E i \in DOMAIN moderation_logs : moderation_logs[i] = BannedLogEntry(u)

\* C22: a user banned for exhausting the verification attempts is never made
\* verified while banned: no update of the banned user issues a new challenge
\* or is evaluated as an answer, and the user stays outside verified.
C22_BanIsTerminal ==
    [][\A u \in Users :
          (Handled(u, GateKinds) /\ BannedByVerification(u) /\ u \notin admin_ids)
          => /\ ev'.fx.checks \cap {"challenge_issued", "answer"} = {}
             /\ u \notin verified_users'
             /\ u \notin user_verification']_vars

(***************************************************************************)
(* A text of a user with a pending challenge                               *)
(***************************************************************************)
\* C23: a text of a user who is no admin and has a pending challenge is
\* consumed as an answer and nothing else: the user's message window and
\* warning count are as before and no flood, keyword or pattern check is run
\* on it, nor is it deleted or a challenge issued.
C23_AnswerOnly ==
    [][\A u \in Users :
          (Handled(u, {"text"}) /\ HasPending(u) /\ u \notin admin_ids)
          => /\ ev'.fx.checks = {"answer"}
             /\ user_messages' = user_messages
             /\ user_warnings' = user_warnings
             /\ ~ev'.fx.deleted
             /\ ~ev'.fx.processed]_vars

\* C23 witness: a keyword text sent while the challenge was pending has been
\* counted as a wrong answer and left in the chat
C23_Witness ==
    /\ ev.kind = "text"
    /\ ev.text = T_airdrop
    /\ ev.fx.checks = {"answer"}
    /\ HasPending(ev.user)
    /\ pending_verification[ev.user].attempts = 1
    /\ user_messages[ev.user] = <<>>
    /\ ~ev.fx.deleted
    /\ OnlyReply(ev, "wrong_answer", <<2>>)

(***************************************************************************)
(* Repeated messages                                                       *)
(***************************************************************************)
MaxRepeatSteps ==
    8

\* one chat that sends the text 7 over and over, half a minute passing now and then;
\* every entry of its message window stems from a message with that text
NextRepeat ==
    \/ AnyText({1}, {T_7}, {3}, MaxRepeatSteps)
    \/ AnyTick({30}, MaxRepeatSteps)

SpecRepeat ==
    Init /\ [][NextRepeat]_vars

\* C24: a message is flagged as a repetition flood when 3 or more of the user's
\* 10 most recent window entries (its own included) carry the content of the
\* message, also while the count of the trailing minute is within the limit.
C24_RepetitionFlagged ==
    [][\A u \in Users :
          (/\ Handled(u, {"text"})
           /\ "flood" \in ev'.fx.checks
           /\ Len(LastEntries(user_messages'[u], 10)) >= 3
           /\ WithinMinute(user_messages'[u], now) <= 10)
          => RepliedWith(ev', {"flood_warning", "muted_for_flood"})]_vars

(***************************************************************************)
(* The capacity of the windows                                             *)
(***************************************************************************)
MaxEarlySteps ==
    6

MaxCommandSteps ==
    28

MaxWindowSteps ==
    76

MaxWindowClock ==
    5

\* one chat that sends the text 7 throughout and commands during its first
\* updates, the clock moving on once early on
NextWindows ==
    \/ AnyText({1}, {T_7}, {3}, MaxWindowSteps)
    \/ AnyCommand({1}, {"help"}, MaxCommandSteps)
    \/ AnyTickUntil({5}, MaxEarlySteps, MaxWindowClock)

SpecWindows ==
    Init /\ [][NextWindows]_vars

\* new is old with x appended, the oldest entries dropped to keep it within max,
\* and the others in their order
AppendedWithin(old, new, x, max) ==
    LET dropped == Len(old) + 1 - Len(new)
    IN  /\ Len(new) = IF Len(old) + 1 > max THEN max ELSE Len(old) + 1
        /\ new[Len(new)] = x
        /\ \A i \in 1..(Len(new) - 1) : new[i] = old[i + dropped]

\* C25: a message window never holds more than 50 timestamps and a command
\* window never more than 20; an append to a full window drops the oldest
\* entry, exactly that one, and keeps the others in arrival order.
C25_WindowsBounded ==
    [][\A u \in Users :
          /\ Len(user_messages'[u]) <= 50
          /\ Len(user_commands'[u]) <= 20
          /\ (ev'.user = u /\ steps' = steps + 1 /\ "flood" \in ev'.fx.checks)
             => AppendedWithin(user_messages[u], user_messages'[u], now, 50)
          /\ (ev'.user = u /\ steps' = steps + 1 /\ "command_rate" \in ev'.fx.checks)
             => AppendedWithin(user_commands[u], user_commands'[u], now, 20)]_vars

\* C25 witness: 51 messages and 21 commands in, both windows are full; the
\* message window has lost one of its two oldest entries, the command window
\* its only old one
C25_Witness ==
    /\ ev.kind = "text"
    /\ "flood" \in ev.fx.checks
    /\ steps = 75
    /\ user_warnings[1] = 41
    /\ Len(user_messages[1]) = 50
    /\ user_messages[1][1] = 0
    /\ user_messages[1][2] = 5
    /\ Len(user_commands[1]) = 20
    /\ user_commands[1][1] = 5

(***************************************************************************)
(* Who may change the admin set                                            *)
(***************************************************************************)
\* C26: the admin set changes only by /add_admin issued by a user who is in
\* it, and then by the addition of the id given; add_admin, mute, unmute, ban
\* and unban issued by a user who is no admin leave the admin, muted and
\* banned sets and the moderation log as they were.
C26_AdminOnly ==
    [][/\ (admin_ids' # admin_ids)
          => /\ Executed(ev', {"add_admin"})
             /\ ev'.user \in admin_ids
             /\ ParseInt(ev'.args[1]).ok
             /\ admin_ids' = admin_ids \cup {ParseInt(ev'.args[1]).value}
       /\ (/\ ev'.kind = "admin_command"
           /\ steps' = steps + 1
           /\ ev'.name \in AdminCommands
           /\ ev'.user \notin admin_ids)
          => /\ admin_ids' = admin_ids
             /\ muted_users' = muted_users
             /\ banned_users' = banned_users
             /\ moderation_logs' = moderation_logs
             /\ OnlyReply(ev', "admin_access_required", <<>>)]_vars

\* C26 witness: admin 2 has made chat 1 an admin with /add_admin 1, and the
\* /ban 2 of chat 1 has been run since
C26_Witness ==
    /\ Executed(ev, {"ban"})
    /\ ev.user = 1
    /\ admin_ids = {1, 2}
    /\ banned_users = {2}
    /\ Len(moderation_logs) = 2
    /\ moderation_logs[1].action = "ADMIN_ADDED"
    /\ moderation_logs[1].admin_id = 2

\* the refusal: chat 1, no admin, sent /add_admin 1 to a bot with
\* admin 2 and a row in its log, and was turned away
C26_Refused ==
    /\ ev.kind = "admin_command"
    /\ ev.name = "add_admin"
    /\ ev.args = << <<"1">> >>
    /\ ev.user = 1
    /\ admin_ids = {2}
    /\ moderation_logs # <<>>
    /\ OnlyReply(ev, "admin_access_required", <<>>)

(***************************************************************************)
(* The warning count                                                       *)
(***************************************************************************)
MaxEscalateSteps ==
    18

FirstAdminStep ==
    14

\* an admin command, once the run has reached a given length
AnyAdminCommandFrom(users, names, arglists, from, limit) ==
    /\ from <= steps
    /\ AnyAdminCommandUnder(users, names, arglists, limit, {TRUE}, {{}})

\* chat 1 floods its way to a mute; late in the run admin 2 mutes, unmutes, bans
\* and unbans it
NextEscalate ==
    \/ AnyText({1}, {T_7}, {3}, MaxEscalateSteps)
    \/ AnyAdminCommandFrom({2}, MembershipCommands, {<< <<"1">> >>},
                           FirstAdminStep, MaxEscalateSteps)

SpecEscalate ==
    Init /\ [][NextEscalate]_vars

\* the step let a message of u into the flood check, which flagged it
FloodFlagged(u) ==
    /\ Handled(u, {"text", "photo"})
    /\ "flood" \in ev'.fx.checks
    /\ FloodFlag(user_messages'[u], now, ev'.text)

\* C27: a warning count never goes down: it changes only by a flood flag of the
\* user, by one, and the warning reply carries the new value; mute, unmute,
\* ban, unban, verification and allowed messages leave it alone.  So every
\* flood flag of a user with 3 or more warnings mutes the user again, the
\* first one after an admin's unmute included.
C27_WarningsOnlyGrow ==
    [][\A u \in Users :
          /\ user_warnings'[u] >= user_warnings[u]
          /\ (user_warnings'[u] # user_warnings[u])
             => (FloodFlagged(u) /\ user_warnings'[u] = user_warnings[u] + 1)
          /\ (FloodFlagged(u) /\ RepliedWith(ev', {"flood_warning"}))
             => OnlyReply(ev', "flood_warning", <<user_warnings'[u]>>)
          /\ (FloodFlagged(u) /\ u \notin admin_ids /\ user_warnings[u] >= 3)
             => /\ u \in muted_users'
                /\ OnlyReply(ev', "muted_for_flood", <<>>)]_vars

\* C27 witness: muted at the third warning and unmuted by admin 2, chat 1 has
\* been muted again by its next flagged message, the fourth warning
C27_Witness ==
    /\ ev.kind = "text"
    /\ ev.user = 1
    /\ user_warnings[1] = 4
    /\ 1 \in muted_users
    /\ Len(moderation_logs) = 3
    /\ moderation_logs[1].action = "MUTED"
    /\ moderation_logs[2].action = "UNMUTED"
    /\ moderation_logs[3].action = "MUTED"
    /\ moderation_logs[3].admin_id = NoAdmin

(***************************************************************************)
(* The bot as it starts: line 58 leaves admin_ids empty                    *)
(***************************************************************************)
InitShipped ==
    InitWith({})

\* every handler, two chats, from the state the constructor builds
SpecShipped ==
    InitShipped /\ [][Next]_vars

\* C28: started with the empty admin set of the constructor, the bot never has
\* an admin: the set is empty in every reachable state, every admin command
\* (add_admin, mute, unmute, ban, unban) is turned away, and no log row or
\* notification stems from an admin.
C28_NoAdminEver ==
    /\ admin_ids = {}
    /\ (ev.kind = "admin_command")
       => (~ev.fx.processed /\ OnlyReply(ev, "admin_access_required", <<>>))
    /\ \A i \in DOMAIN moderation_logs : moderation_logs[i].admin_id = NoAdmin
    /\ \A i \in DOMAIN ev.fx.notified : ev.fx.notified[i].sent = {}

\* C28 witness: chat 1, verified by now, asked to be made admin with
\* /add_admin 1 and was turned away
C28_Witness ==
    /\ ev.kind = "admin_command"
    /\ ev.name = "add_admin"
    /\ ev.user = 1
    /\ ev.args = << <<"1">> >>
    /\ 1 \in verified_users
    /\ admin_ids = {}
    /\ OnlyReply(ev, "admin_access_required", <<>>)

(***************************************************************************)
(* Commands sent too quickly                                               *)
(***************************************************************************)
MaxCommandRunSteps ==
    9

\* one chat that sends /start and /help, a text now and then, a minute passing
NextCommands ==
    \/ AnyCommand({1}, {"start", "help"}, MaxCommandRunSteps)
    \/ AnyText({1}, {T_7}, {3}, MaxCommandRunSteps)
    \/ AnyTick({61}, MaxCommandRunSteps)

SpecCommands ==
    Init /\ [][NextCommands]_vars

\* C29: a command of a user who is no admin that the command rate check flags
\* is not executed; its timestamp is appended to the user's command window and
\* nothing else changes: warning counts, muted and banned sets, message
\* windows and the moderation log are as before, so no mute comes of it.
C29_FlaggedCommandOnlyCounts ==
    [][\A u \in Users :
          (/\ Handled(u, {"command"})
           /\ u \notin admin_ids
           /\ "command_rate" \in ev'.fx.checks
           /\ CommandFlag(user_commands'[u], now))
          => /\ ~ev'.fx.processed
             /\ ev'.fx.checks = {"command_rate"}
             /\ OnlyReply(ev', "commands_too_quickly", <<>>)
             /\ AppendedWithin(user_commands[u], user_commands'[u], now, 20)
             /\ user_warnings' = user_warnings
             /\ muted_users' = muted_users
             /\ banned_users' = banned_users
             /\ user_messages' = user_messages
             /\ moderation_logs' = moderation_logs]_vars

\* C29 witness: the eighth command within a minute, a /start, the third one
\* flagged, was turned away; the chat has no warning and is not muted
C29_Witness ==
    /\ ev.kind = "command"
    /\ ev.name = "start"
    /\ OnlyReply(ev, "commands_too_quickly", <<>>)
    /\ WithinMinute(user_commands[1], now) = 8
    /\ user_warnings[1] = 0
    /\ muted_users = {}

(***************************************************************************)
(* How long a challenge stays pending                                      *)
(***************************************************************************)
\* the pending entry of u is gone and u is verified or banned
Resolved(u) ==
    /\ u \notin DOMAIN pending_verification'
    /\ (u \in verified_users' \/ u \in banned_users')

\* C30: the attempt counter of a pending entry is 0, 1 or 2.  Each text a user
\* submits while the entry is pending either resolves it (the entry is gone
\* and the user is verified or banned) or adds one to its counter, and a
\* submission to an entry with counter 2 resolves it: three submissions at
\* most, and the entry is no more.
C30_ResolvedWithinThree ==
    [][\A u \in Users :
          /\ (u \in DOMAIN pending_verification')
             => pending_verification'[u].attempts \in 0..2
          /\ (Handled(u, {"text"}) /\ HasPending(u))
             => \/ Resolved(u)
                \/ /\ u \in DOMAIN pending_verification'
                   /\ pending_verification'[u].attempts
                          = pending_verification[u].attempts + 1
          /\ (Handled(u, {"text"}) /\ HasPending(u)
                  /\ pending_verification[u].attempts = 2)
             => Resolved(u)]_vars

\* C30 witness: the third submission, wrong like the two before it, has closed
\* the entry with a ban
C30_Witness ==
    /\ ev.kind = "text"
    /\ ev.text = T_hello
    /\ RepliedWith(ev, {"verification_failed_banned"})
    /\ ~HasPending(ev.user)
    /\ ev.user \in banned_users
    /\ ev.user \notin verified_users

====
